---- MODULE Spec2Model ----
(***************************************************************************)
(* Model of phayes/go-drupal: the drush command runner (Drush.Run), the    *)
(* stderr line classifier (NewDrushMessage) and the message set            *)
(* (DrushMessages / DrushMessageSet).                                      *)
(*                                                                         *)
(* Strings are tuples of one-character strings so that HasSuffix,          *)
(* TrimSuffix and TrimSpace are computed, not assumed.                     *)
(*                                                                         *)
(* src/drush.go holds two revisions of the runner built on the message     *)
(* types: the DrushMessages revision (lines 109-338) and the               *)
(* DrushMessageSet revision (lines 340-548).  The variable revision says   *)
(* which one a behaviour runs.                                             *)
(***************************************************************************)
EXTENDS Integers, Sequences, FiniteSets, TLC

(***************************************************************************)
(* Bounds                                                                  *)
(***************************************************************************)
\* stderr lines the external process writes in one run
MaxStderr == 3
\* stdout chunks the external process writes in one run
MaxStdout == 1
\* characters of free text in a line handed to the classifier
MaxBody == 2
\* stderr lines the external process writes in a run checked for termination
MaxFairStderr == 1
\* messages in the error set the status command's Run returns to the Site facade
MaxSiteErrs == 2
\* Run calls made on one Drush value
MaxCalls == 2
\* keys present in a Settings mapping
MaxKeys == 1
\* messages in a message set handed to the Has* predicates
MaxSet == 2

(***************************************************************************)
(* strings                                                                 *)
(***************************************************************************)
IsSpace(c) == c \in {" ", "\t"}

HasSuffix(s, suffix) ==
    /\ Len(s) >= Len(suffix)
    /\ SubSeq(s, Len(s) - Len(suffix) + 1, Len(s)) = suffix

TrimSuffix(s, suffix) ==
    IF HasSuffix(s, suffix) THEN SubSeq(s, 1, Len(s) - Len(suffix)) ELSE s

RECURSIVE TrimLeft(_)
TrimLeft(s) ==
    IF s # <<>> /\ IsSpace(Head(s)) THEN TrimLeft(Tail(s)) ELSE s

RECURSIVE TrimRight(_)
TrimRight(s) ==
    IF s # <<>> /\ IsSpace(s[Len(s)]) THEN TrimRight(SubSeq(s, 1, Len(s) - 1)) ELSE s

TrimSpace(s) == TrimRight(TrimLeft(s))

(***************************************************************************)
(* DrushMessageType                                                        *)
(***************************************************************************)
DrushMessageError   == <<"[", "e", "r", "r", "o", "r", "]">>
DrushMessageWarning == <<"[", "w", "a", "r", "n", "i", "n", "g", "]">>
DrushMessageNotice  == <<"[", "n", "o", "t", "i", "c", "e", "]">>
DrushMessageOK      == <<"[", "o", "k", "]">>
DrushMessageSuccess == <<"[", "s", "u", "c", "c", "e", "s", "s", "]">>
DrushMessageUnknown == <<"[", "u", "n", "k", "n", "o", "w", "n", "]">>

Revisions == {"DrushMessages", "DrushMessageSet"}

\* the [success] marker exists in the DrushMessages revision only
HasSuccessType(rev) == rev = "DrushMessages"

(***************************************************************************)
(* NewDrushMessage                                                         *)
(***************************************************************************)
DrushMessage(text, type) == [Message |-> text, Type |-> type]

MessageTypeOf(rev, messageline) ==
    IF HasSuffix(messageline, DrushMessageError) THEN DrushMessageError
    ELSE IF HasSuffix(messageline, DrushMessageWarning) THEN DrushMessageWarning
    ELSE IF HasSuffix(messageline, DrushMessageNotice) THEN DrushMessageWarning
    ELSE IF HasSuffix(messageline, DrushMessageOK) THEN DrushMessageOK
    ELSE IF HasSuccessType(rev) /\ HasSuffix(messageline, DrushMessageSuccess)
         THEN DrushMessageSuccess
    ELSE DrushMessageUnknown

\* NewDrushMessage trimming the line before it tests for the markers
NewDrushMessageTrimFirst(rev, messageline) ==
    LET trimmed == TrimSpace(messageline)
        mestype == MessageTypeOf(rev, trimmed)
    IN  DrushMessage(TrimSpace(TrimSuffix(trimmed, mestype)), mestype)

NewDrushMessage(rev, messageline) ==
    LET mestype == MessageTypeOf(rev, messageline)
    IN  DrushMessage(TrimSpace(TrimSuffix(messageline, mestype)), mestype)

(***************************************************************************)
(* DrushMessages / DrushMessageSet: a Go slice, nil or not                 *)
(***************************************************************************)
NilSlice == [isNil |-> TRUE, elems |-> <<>>]

EmptySlice == [isNil |-> FALSE, elems |-> <<>>]

AppendSlice(s, m) == [isNil |-> FALSE, elems |-> Append(s.elems, m)]

RECURSIVE HasTypeLoop(_, _)
\* for _, DrushMessage := range des { if DrushMessage.Type == type { return true } }
\* return false
HasTypeLoop(elems, type) ==
    IF elems = <<>> THEN FALSE
    ELSE IF Head(elems).Type = type THEN TRUE
    ELSE HasTypeLoop(Tail(elems), type)

\* if des == nil { return false }, then the loop
HasType(des, type) ==
    IF des.isNil THEN FALSE ELSE HasTypeLoop(des.elems, type)

HasErrors(des) == HasType(des, DrushMessageError)

HasWarnings(des) == HasType(des, DrushMessageWarning)

\* HasNotices comparing against the Warning type
HasNoticesAsWarnings(des) == HasType(des, DrushMessageWarning)

HasNotices(des) == HasType(des, DrushMessageNotice)

HasUnknowns(des) == HasType(des, DrushMessageUnknown)

(***************************************************************************)
(* error values: nil, a plain error, or a message set                      *)
(***************************************************************************)
NilError == [kind |-> "nil", text |-> <<>>, set |-> NilSlice]

PlainError(text) == [kind |-> "plain", text |-> text, set |-> NilSlice]

SetError(des) == [kind |-> "set", text |-> <<>>, set |-> des]

\* (*exec.ExitError).Error() of a process that exited with status 1
ExitStatusText == <<"e", "x", "i", "t", " ", "s", "t", "a", "t", "u", "s", " ", "1">>

\* errors of StderrPipe, StdoutPipe and Start
PipeErrorText == <<"p", "i", "p", "e">>

StartErrorText == <<"s", "t", "a", "r", "t">>

(***************************************************************************)
(* what the external process may write                                     *)
(***************************************************************************)
StderrLines ==
    { <<"e", " ">> \o DrushMessageError,
      <<"w", " ">> \o DrushMessageWarning,
      <<"n", " ">> \o DrushMessageNotice,
      <<"k", " ">> \o DrushMessageOK,
      <<"u">> }

StdoutChunks == { <<"o">> }

(***************************************************************************)
(* state of one Drush.Run call                                             *)
(***************************************************************************)
VARIABLES
    revision,     \* which revision of drush.go runs
    pc,           \* position of the main task and of the two drain tasks
    cmdState,     \* the external process: "built", "running", "exited"
    exitStatus,   \* its exit status once exited
    emitted,      \* every line the process wrote to stderr, in order
    written,      \* every chunk the process wrote to stdout, in order
    pipe,         \* unread content of the stderr and stdout pipes
    pipeOpen,     \* whether the parent's read end of each pipe is open
    wg,           \* sync.WaitGroup counter
    errset,       \* the stderr accumulator
    messages,     \* the ok-message list (named result)
    outbuf,       \* the stdout buffer
    err,          \* the main task's err
    mainErrset,   \* errset as read by the main task's append
    drainErrset,  \* errset as read by the drain task's append
    message,      \* the drain task's current message
    result,       \* what Run returned
    messageline,  \* SpecClassify: the input line
    classified,   \* SpecClassify: NewDrushMessage's result
    drushMessages, \* SpecMessageSet: the receiver of the Has* methods
    has,          \* SpecMessageSet: what the four Has* methods returned
    settings,     \* SpecSettings: the Settings mapping
    got,          \* SpecSettings: the accessor call made and what it did
    cmdBuiltIn,   \* SpecCalls: "NewDrush" (first revision) or "Run" (buildCommand)
    dCmd,         \* SpecCalls: the exec.Cmd the field d.cmd points to
    cmds,         \* SpecCalls: the state of every exec.Cmd built
    callPc,       \* SpecCalls: where each Run call on the Drush value d stands
    call,         \* SpecCalls: the exec.Cmd each call acted on, and its error
    siteMethod,   \* Site facade: the method called
    sitePc,       \* Site facade: where the call stands
    drushResult,  \* Site facade: what s.Drush("status", "--format=json") returned
    phpResult,    \* Site facade: the php interpreter call, if started
    siteResult    \* Site facade: what the method returned

vars == <<revision, pc, cmdState, exitStatus, emitted, written, pipe, pipeOpen,
          wg, errset, messages, outbuf, err, mainErrset, drainErrset, message,
          result, messageline, classified, drushMessages, has,
          settings, got, cmdBuiltIn, dCmd, cmds, callPc, call,
          siteMethod, sitePc, drushResult, phpResult, siteResult>>

runVars == <<pc, cmdState, exitStatus, emitted, written, pipe, pipeOpen,
             wg, errset, messages, outbuf, err, mainErrset, drainErrset, message,
             result>>

NoMessage == DrushMessage(<<>>, <<>>)

NoResult == [returned |-> FALSE, output |-> <<>>, messages |-> NilSlice, errs |-> NilError]

Returned(output, msgs, errs) ==
    [returned |-> TRUE, output |-> output, messages |-> msgs, errs |-> errs]

RunInit ==
    /\ pc = [main |-> "StderrPipe", stderr |-> "idle", stdout |-> "idle"]
    /\ cmdState = "built"
    /\ exitStatus = 0
    /\ emitted = <<>>
    /\ written = <<>>
    /\ pipe = [stderr |-> <<>>, stdout |-> <<>>]
    /\ pipeOpen = [stderr |-> FALSE, stdout |-> FALSE]
    /\ wg = 0
    /\ errset = NilSlice
    /\ messages = NilSlice
    /\ outbuf = <<>>
    /\ err = NilError
    /\ mainErrset = NilSlice
    /\ drainErrset = NilSlice
    /\ message = NoMessage
    /\ result = NoResult

NoHas == [called |-> FALSE, errors |-> FALSE, warnings |-> FALSE,
          notices |-> FALSE, unknowns |-> FALSE]

\* variables of the other specifications, at rest
setVars == <<drushMessages, has>>

settingsVars == <<settings, got>>

callVars == <<cmdBuiltIn, dCmd, cmds, callPc, call>>

siteVars == <<siteMethod, sitePc, drushResult, phpResult, siteResult>>

auxVars == <<setVars, settingsVars, callVars, siteVars>>

SetIdle == drushMessages = NilSlice /\ has = NoHas

\* a dynamic value: its Go type, its scalar content and, for a list, its items
Value(type, scalar, items) == [type |-> type, scalar |-> scalar, items |-> items]

NoGot ==
    [called |-> FALSE, accessor |-> "", key |-> "", panic |-> FALSE,
     value |-> Value("", "", <<>>)]

SettingsIdle == settings = <<>> /\ got = NoGot

ClassifyIdle == messageline = <<>> /\ classified = NoMessage

\* Run calls made on one Drush value
Calls == 1..MaxCalls

\* exec.Cmd values: 0 is the one NewDrush builds in the first revision, c the one
\* call c builds in buildCommand
CmdIds == 0..MaxCalls

\* exec.Command(...): no Stderr, no Stdout, no Process
FreshCmd == [stderrSet |-> FALSE, stdoutSet |-> FALSE, started |-> FALSE, waited |-> FALSE]

NoCall == [stderr |-> {}, stdout |-> {}, started |-> {}, waited |-> {}, err |-> ""]

CallsIdle ==
    /\ cmdBuiltIn = "Run"
    /\ dCmd = 0
    /\ cmds = [k \in CmdIds |-> FreshCmd]
    /\ callPc = [c \in Calls |-> "idle"]
    /\ call = [c \in Calls |-> NoCall]

NoPhp == [started |-> FALSE, err |-> NilError, out |-> <<>>]

NoSiteResult == [returned |-> FALSE, value |-> "nil", err |-> NilError, wrappedWith |-> ""]

SiteIdle ==
    /\ siteMethod = ""
    /\ sitePc = "idle"
    /\ drushResult = NoResult
    /\ phpResult = NoPhp
    /\ siteResult = NoSiteResult

AuxIdle == SetIdle /\ SettingsIdle /\ CallsIdle /\ SiteIdle

Init ==
    /\ revision \in Revisions
    /\ RunInit
    /\ ClassifyIdle
    /\ AuxIdle

Goto(task, label) == pc' = [pc EXCEPT ![task] = label]

classifyVars == <<revision, messageline, classified, auxVars>>

(***************************************************************************)
(* Drush.Run, main task                                                    *)
(***************************************************************************)
\* return "", nil, err
ReturnTransportError(e) == Returned(<<>>, NilSlice, PlainError(e))

\* stderr, err := d.cmd.StderrPipe(); if err != nil { return "", nil, err }
StderrPipe ==
    /\ pc.main = "StderrPipe"
    /\ \/ /\ pipeOpen' = [pipeOpen EXCEPT !.stderr = TRUE]
          /\ Goto("main", "StdoutPipe")
          /\ UNCHANGED <<err, result>>
       \/ /\ err' = PlainError(PipeErrorText)
          /\ result' = ReturnTransportError(PipeErrorText)
          /\ Goto("main", "returned")
          /\ UNCHANGED pipeOpen
    /\ UNCHANGED <<cmdState, exitStatus, emitted, written, pipe, wg, errset, messages,
                   outbuf, mainErrset, drainErrset, message, classifyVars>>

\* stdout, err := d.cmd.StdoutPipe(); if err != nil { return "", nil, err }
StdoutPipe ==
    /\ pc.main = "StdoutPipe"
    /\ \/ /\ pipeOpen' = [pipeOpen EXCEPT !.stdout = TRUE]
          /\ Goto("main", "Start")
          /\ UNCHANGED <<err, result>>
       \/ /\ err' = PlainError(PipeErrorText)
          /\ result' = ReturnTransportError(PipeErrorText)
          /\ Goto("main", "returned")
          /\ UNCHANGED pipeOpen
    /\ UNCHANGED <<cmdState, exitStatus, emitted, written, pipe, wg, errset, messages,
                   outbuf, mainErrset, drainErrset, message, classifyVars>>

\* Start with the return on failure forgotten: the failed start falls through
StartIgnoresError ==
    /\ pc.main = "Start"
    /\ \/ /\ cmdState' = "running"
          /\ UNCHANGED err
       \/ /\ err' = PlainError(StartErrorText)
          /\ UNCHANGED cmdState
    /\ Goto("main", "GoStderr")
    /\ UNCHANGED <<exitStatus, emitted, written, pipe, pipeOpen, wg, errset, messages,
                   outbuf, mainErrset, drainErrset, message, result, classifyVars>>

\* err = d.cmd.Start(); if err != nil { return "", nil, err }
Start ==
    /\ pc.main = "Start"
    /\ \/ /\ cmdState' = "running"
          /\ Goto("main", "GoStderr")
          /\ UNCHANGED <<err, result>>
       \/ /\ err' = PlainError(StartErrorText)
          /\ result' = ReturnTransportError(StartErrorText)
          /\ Goto("main", "returned")
          /\ UNCHANGED cmdState
    /\ UNCHANGED <<exitStatus, emitted, written, pipe, pipeOpen, wg, errset, messages,
                   outbuf, mainErrset, drainErrset, message, classifyVars>>

\* errset := DrushMessages{}; wg.Add(1); go func() { ... }()
GoStderr ==
    /\ pc.main = "GoStderr"
    /\ errset' = EmptySlice
    /\ wg' = wg + 1
    /\ pc' = [pc EXCEPT !.main = "GoStdout", !.stderr = "Scan"]
    /\ UNCHANGED <<cmdState, exitStatus, emitted, written, pipe, pipeOpen, messages,
                   outbuf, err, mainErrset, drainErrset, message, result, classifyVars>>

\* wg.Add(1); outbuf := new(bytes.Buffer); go func() { ... }()
GoStdout ==
    /\ pc.main = "GoStdout"
    /\ outbuf' = <<>>
    /\ wg' = wg + 1
    /\ pc' = [pc EXCEPT !.main = "Wait", !.stdout = "ReadFrom"]
    /\ UNCHANGED <<cmdState, exitStatus, emitted, written, pipe, pipeOpen, errset,
                   messages, err, mainErrset, drainErrset, message, result, classifyVars>>

\* the error of cmd.Wait(): *exec.ExitError when the exit status is non-zero
WaitError(status) == IF status # 0 THEN PlainError(ExitStatusText) ELSE NilError

\* a Wait that does not block until the process has exited
WaitReturnsEarly ==
    /\ pc.main = "Wait"
    /\ pipeOpen' = [stderr |-> FALSE, stdout |-> FALSE]
    /\ err' = WaitError(exitStatus)
    /\ Goto("main", IF err'.kind # "nil" THEN "AppendLoad" ELSE "WgWait")
    /\ UNCHANGED <<cmdState, exitStatus, emitted, written, pipe, wg, errset, messages,
                   outbuf, mainErrset, drainErrset, message, result, classifyVars>>

\* err = d.cmd.Wait(): blocks until the process has exited, then closes the
\* parent's ends of the pipes; what was not yet read from them is gone
Wait ==
    /\ pc.main = "Wait"
    /\ cmdState = "exited"
    /\ pipeOpen' = [stderr |-> FALSE, stdout |-> FALSE]
    /\ err' = WaitError(exitStatus)
    /\ Goto("main", IF err'.kind # "nil" THEN "AppendLoad" ELSE "WgWait")
    /\ UNCHANGED <<cmdState, exitStatus, emitted, written, pipe, wg, errset, messages,
                   outbuf, mainErrset, drainErrset, message, result, classifyVars>>

\* errset = append(errset, NewDrushMessage(err.Error())): the read of errset
MainLoadErrset ==
    /\ pc.main = "AppendLoad"
    /\ mainErrset' = errset
    /\ Goto("main", "AppendStore")
    /\ UNCHANGED <<cmdState, exitStatus, emitted, written, pipe, pipeOpen, wg, errset,
                   messages, outbuf, err, drainErrset, message, result, classifyVars>>

\* errset = append(errset, NewDrushMessage(err.Error())): the write of errset
MainStoreErrset ==
    /\ pc.main = "AppendStore"
    /\ errset' = AppendSlice(mainErrset, NewDrushMessage(revision, err.text))
    /\ Goto("main", "WgWait")
    /\ UNCHANGED <<cmdState, exitStatus, emitted, written, pipe, pipeOpen, wg,
                   messages, outbuf, err, mainErrset, drainErrset, message, result,
                   classifyVars>>

\* a barrier that lets the main task through while one task is still counted
WgWaitReturnsEarly(n) == n <= 1

\* wg.Wait() returns once the counter is zero
WgWaitReturns(n) == n = 0

WgWait ==
    /\ pc.main = "WgWait"
    /\ WgWaitReturns(wg)
    /\ Goto("main", "Assemble")
    /\ UNCHANGED <<cmdState, exitStatus, emitted, written, pipe, pipeOpen, wg, errset,
                   messages, outbuf, err, mainErrset, drainErrset, message, result,
                   classifyVars>>

\* DrushMessages: if errset != nil && len(errset) > 0 { errs = errset }
\* DrushMessageSet: if errset.HasErrors() { errs = errset }
ErrsOf(rev, des) ==
    IF rev = "DrushMessages"
    THEN IF ~des.isNil /\ Len(des.elems) > 0 THEN SetError(des) ELSE NilError
    ELSE IF HasErrors(des) THEN SetError(des) ELSE NilError

\* return outbuf.String(), messages, errs
Assemble ==
    /\ pc.main = "Assemble"
    /\ result' = Returned(outbuf, messages, ErrsOf(revision, errset))
    /\ Goto("main", "returned")
    /\ UNCHANGED <<cmdState, exitStatus, emitted, written, pipe, pipeOpen, wg, errset,
                   messages, outbuf, err, mainErrset, drainErrset, message, classifyVars>>

(***************************************************************************)
(* Drush.Run, stderr drain task                                            *)
(***************************************************************************)
\* message.Type == DrushMessageOK || message.Type == DrushMessageSuccess
IsOkType(rev, type) ==
    \/ type = DrushMessageOK
    \/ HasSuccessType(rev) /\ type = DrushMessageSuccess

\* scanner.Scan() delivers a line; message := NewDrushMessage(scanner.Text())
StderrScan ==
    /\ pc.stderr = "Scan"
    /\ pipeOpen.stderr
    /\ pipe.stderr # <<>>
    /\ message' = NewDrushMessage(revision, Head(pipe.stderr))
    /\ pipe' = [pipe EXCEPT !.stderr = Tail(@)]
    /\ Goto("stderr", "Dispatch")
    /\ UNCHANGED <<cmdState, exitStatus, emitted, written, pipeOpen, wg, errset,
                   messages, outbuf, err, mainErrset, drainErrset, result, classifyVars>>

\* scanner.Scan() returns false (end of stream, or the pipe was closed);
\* defer wg.Done()
StderrScanEnd ==
    /\ pc.stderr = "Scan"
    /\ \/ ~pipeOpen.stderr
       \/ pipe.stderr = <<>> /\ cmdState = "exited"
    /\ wg' = wg - 1
    /\ Goto("stderr", "done")
    /\ UNCHANGED <<cmdState, exitStatus, emitted, written, pipe, pipeOpen, errset,
                   messages, outbuf, err, mainErrset, drainErrset, message, result,
                   classifyVars>>

\* messages = append(messages, message)
StderrKeepMessage ==
    /\ pc.stderr = "Dispatch"
    /\ IsOkType(revision, message.Type)
    /\ messages' = AppendSlice(messages, message)
    /\ Goto("stderr", "Scan")
    /\ UNCHANGED <<cmdState, exitStatus, emitted, written, pipe, pipeOpen, wg, errset,
                   outbuf, err, mainErrset, drainErrset, message, result, classifyVars>>

\* errset = append(errset, message): the read of errset
StderrLoadErrset ==
    /\ pc.stderr = "Dispatch"
    /\ ~IsOkType(revision, message.Type)
    /\ drainErrset' = errset
    /\ Goto("stderr", "Store")
    /\ UNCHANGED <<cmdState, exitStatus, emitted, written, pipe, pipeOpen, wg, errset,
                   messages, outbuf, err, mainErrset, message, result, classifyVars>>

\* errset = append(errset, message): the write of errset
StderrStoreErrset ==
    /\ pc.stderr = "Store"
    /\ errset' = AppendSlice(drainErrset, message)
    /\ Goto("stderr", "Scan")
    /\ UNCHANGED <<cmdState, exitStatus, emitted, written, pipe, pipeOpen, wg,
                   messages, outbuf, err, mainErrset, drainErrset, message, result,
                   classifyVars>>

(***************************************************************************)
(* Drush.Run, stdout drain task                                            *)
(***************************************************************************)
\* outbuf.ReadFrom(stdout): one read
StdoutRead ==
    /\ pc.stdout = "ReadFrom"
    /\ pipeOpen.stdout
    /\ pipe.stdout # <<>>
    /\ outbuf' = outbuf \o Head(pipe.stdout)
    /\ pipe' = [pipe EXCEPT !.stdout = Tail(@)]
    /\ UNCHANGED <<pc, cmdState, exitStatus, emitted, written, pipeOpen, wg, errset,
                   messages, err, mainErrset, drainErrset, message, result, classifyVars>>

\* outbuf.ReadFrom(stdout) returns (end of stream, or the pipe was closed);
\* defer wg.Done()
StdoutReadEnd ==
    /\ pc.stdout = "ReadFrom"
    /\ \/ ~pipeOpen.stdout
       \/ pipe.stdout = <<>> /\ cmdState = "exited"
    /\ wg' = wg - 1
    /\ Goto("stdout", "done")
    /\ UNCHANGED <<cmdState, exitStatus, emitted, written, pipe, pipeOpen, errset,
                   messages, outbuf, err, mainErrset, drainErrset, message, result,
                   classifyVars>>

(***************************************************************************)
(* the external process                                                    *)
(***************************************************************************)
ProcWriteStderr ==
    /\ cmdState = "running"
    /\ Len(emitted) < MaxStderr
    /\ \E l \in StderrLines :
          /\ emitted' = Append(emitted, l)
          /\ pipe' = [pipe EXCEPT !.stderr = Append(@, l)]
    /\ UNCHANGED <<pc, cmdState, exitStatus, written, pipeOpen, wg, errset, messages,
                   outbuf, err, mainErrset, drainErrset, message, result, classifyVars>>

ProcWriteStdout ==
    /\ cmdState = "running"
    /\ Len(written) < MaxStdout
    /\ \E c \in StdoutChunks :
          /\ written' = Append(written, c)
          /\ pipe' = [pipe EXCEPT !.stdout = Append(@, c)]
    /\ UNCHANGED <<pc, cmdState, exitStatus, emitted, pipeOpen, wg, errset, messages,
                   outbuf, err, mainErrset, drainErrset, message, result, classifyVars>>

ProcExit ==
    /\ cmdState = "running"
    /\ cmdState' = "exited"
    /\ exitStatus' \in {0, 1}
    /\ UNCHANGED <<pc, emitted, written, pipe, pipeOpen, wg, errset, messages,
                   outbuf, err, mainErrset, drainErrset, message, result, classifyVars>>

Next ==
    \/ StderrPipe
    \/ StdoutPipe
    \/ Start
    \/ GoStderr
    \/ GoStdout
    \/ Wait
    \/ MainLoadErrset
    \/ MainStoreErrset
    \/ WgWait
    \/ Assemble
    \/ StderrScan
    \/ StderrScanEnd
    \/ StderrKeepMessage
    \/ StderrLoadErrset
    \/ StderrStoreErrset
    \/ StdoutRead
    \/ StdoutReadEnd
    \/ ProcWriteStderr
    \/ ProcWriteStdout
    \/ ProcExit

Spec == Init /\ [][Next]_vars

(***************************************************************************)
(* scheduling: a task of Run that can take a step eventually takes one;    *)
(* nothing is assumed of the external process                              *)
(***************************************************************************)
MainTask ==
    \/ StderrPipe
    \/ StdoutPipe
    \/ Start
    \/ GoStderr
    \/ GoStdout
    \/ Wait
    \/ MainLoadErrset
    \/ MainStoreErrset
    \/ WgWait
    \/ Assemble

StderrTask ==
    \/ StderrScan
    \/ StderrScanEnd
    \/ StderrKeepMessage
    \/ StderrLoadErrset
    \/ StderrStoreErrset

StdoutTask ==
    \/ StdoutRead
    \/ StdoutReadEnd

\* the run of Next whose process writes at most MaxFairStderr stderr lines
FairNext ==
    \/ MainTask
    \/ StderrTask
    \/ StdoutTask
    \/ ProcWriteStderr /\ Len(emitted) < MaxFairStderr
    \/ ProcWriteStdout
    \/ ProcExit

FairSpec ==
    /\ Init
    /\ [][FairNext]_vars
    /\ WF_vars(MainTask)
    /\ WF_vars(StderrTask)
    /\ WF_vars(StdoutTask)

(***************************************************************************)
(* NewDrushMessage on its own: every line of ClassifierLines is classified *)
(***************************************************************************)
SeqsUpTo(S, n) == UNION { [1..k -> S] : k \in 0..n }

BodyChars == {"x", " "}

LineSuffixes ==
    { <<>>, DrushMessageError, DrushMessageWarning, DrushMessageNotice,
      DrushMessageOK, DrushMessageSuccess, DrushMessageUnknown }

ClassifierLines ==
    { body \o suffix \o trail :
        body \in SeqsUpTo(BodyChars, MaxBody),
        suffix \in LineSuffixes,
        trail \in {<<>>, <<" ">>} }

ClassifyInit ==
    /\ revision \in Revisions
    /\ RunInit
    /\ messageline \in ClassifierLines
    /\ classified = NoMessage
    /\ AuxIdle

Classify ==
    /\ classified = NoMessage
    /\ classified' = NewDrushMessage(revision, messageline)
    /\ UNCHANGED <<revision, messageline, runVars, auxVars>>

ClassifyNext == Classify

SpecClassify == ClassifyInit /\ [][ClassifyNext]_vars

(***************************************************************************)
(* the Has* predicates on their own: every set of MessageSets is queried   *)
(***************************************************************************)
AllTypes ==
    { DrushMessageError, DrushMessageWarning, DrushMessageNotice, DrushMessageOK,
      DrushMessageSuccess, DrushMessageUnknown }

SetMessages == { DrushMessage(<<"m">>, type) : type \in AllTypes }

MessageSets ==
    {NilSlice} \cup { [isNil |-> FALSE, elems |-> e] : e \in SeqsUpTo(SetMessages, MaxSet) }

SetInit ==
    /\ revision \in Revisions
    /\ RunInit
    /\ ClassifyIdle
    /\ drushMessages \in MessageSets
    /\ has = NoHas
    /\ SettingsIdle
    /\ CallsIdle
    /\ SiteIdle

\* HasErrors(), HasWarnings(), HasNotices(), HasUnknowns() of one set
QueryHas ==
    /\ ~has.called
    /\ has' = [called |-> TRUE, errors |-> HasErrors(drushMessages), warnings |-> HasWarnings(drushMessages),
                notices |-> HasNotices(drushMessages), unknowns |-> HasUnknowns(drushMessages)]
    /\ UNCHANGED <<revision, messageline, classified, runVars, drushMessages,
                   settingsVars, callVars, siteVars>>

SetNext == QueryHas

SpecMessageSet == SetInit /\ [][SetNext]_vars

(***************************************************************************)
(* Settings: map[string]interface{} and its typed accessors                *)
(***************************************************************************)
\* the maximal number of keys of a Settings mapping under test
SettingKeys == {"hash_salt", "list"}

\* values json.Unmarshal produces (string, float64, bool, []interface{},
\* map[string]interface{}, nil) and values only Go code can store (int, Settings)
SettingValues ==
    { Value("string", "X", <<>>),
      Value("float64", "1", <<>>),
      Value("bool", "true", <<>>),
      Value("list", "", <<Value("string", "a", <<>>), Value("float64", "1", <<>>),
                          Value("string", "b", <<>>)>>),
      Value("map", "", <<>>),
      Value("nil", "", <<>>),
      Value("int", "1", <<>>),
      Value("Settings", "", <<>>) }

SettingsMaps ==
    UNION { [keys -> SettingValues] :
              keys \in { k \in SUBSET SettingKeys : Cardinality(k) <= MaxKeys } }

\* what a call did: returned a value, or panicked
Return(v) == [panic |-> FALSE, value |-> v]

Panic == [panic |-> TRUE, value |-> Value("", "", <<>>)]

\* val, ok := s[key]; if !ok { return zero }; v, ok := val.(T); if !ok { return zero }
GetChecked(s, key, type, zero) ==
    IF key \notin DOMAIN s THEN Return(zero)
    ELSE IF s[key].type # type THEN Return(zero)
    ELSE Return(s[key])

GetString(s, key) == GetChecked(s, key, "string", Value("string", "", <<>>))

GetInt(s, key) == GetChecked(s, key, "int", Value("int", "0", <<>>))

GetBool(s, key) == GetChecked(s, key, "bool", Value("bool", "false", <<>>))

GetFloat(s, key) == GetChecked(s, key, "float64", Value("float64", "0", <<>>))

GetAssocArray(s, key) == GetChecked(s, key, "Settings", Value("Settings", "nil", <<>>))

RECURSIVE StringItems(_)
\* for _, subval := range arrayval { strval, ok := subval.(string); if !ok { continue };
\* array = append(array, strval) }
StringItems(arrayval) ==
    IF arrayval = <<>> THEN <<>>
    ELSE (IF Head(arrayval).type = "string" THEN <<Head(arrayval)>> ELSE <<>>)
             \o StringItems(Tail(arrayval))

\* val, ok := s[key]; if !ok { return nil }; arrayval := val.([]interface{}): the
\* one-result type assertion panics when val is not a []interface{}
GetArray(s, key) ==
    IF key \notin DOMAIN s THEN Return(Value("[]string", "nil", <<>>))
    ELSE IF s[key].type # "list" THEN Panic
    ELSE Return(Value("[]string", "", StringItems(s[key].items)))

Accessors == {"GetString", "GetInt", "GetBool", "GetFloat", "GetAssocArray", "GetArray"}

CallAccessor(accessor, s, key) ==
    CASE accessor = "GetString" -> GetString(s, key)
      [] accessor = "GetInt" -> GetInt(s, key)
      [] accessor = "GetBool" -> GetBool(s, key)
      [] accessor = "GetFloat" -> GetFloat(s, key)
      [] accessor = "GetAssocArray" -> GetAssocArray(s, key)
      [] accessor = "GetArray" -> GetArray(s, key)

SettingsInit ==
    /\ revision = "DrushMessages"
    /\ RunInit
    /\ ClassifyIdle
    /\ SetIdle
    /\ settings \in SettingsMaps
    /\ got = NoGot
    /\ CallsIdle
    /\ SiteIdle

\* one accessor call on the mapping
CallGet ==
    /\ ~got.called
    /\ \E accessor \in Accessors, key \in SettingKeys :
          LET did == CallAccessor(accessor, settings, key)
          IN  got' = [called |-> TRUE, accessor |-> accessor, key |-> key,
                      panic |-> did.panic, value |-> did.value]
    /\ UNCHANGED <<revision, messageline, classified, runVars, setVars, settings,
                   callVars, siteVars>>

SettingsNext == CallGet

SpecSettings == SettingsInit /\ [][SettingsNext]_vars

(***************************************************************************)
(* several Run calls on one Drush value d: the field d.cmd                 *)
(***************************************************************************)
CallsInit ==
    /\ revision = "DrushMessages"
    /\ RunInit
    /\ ClassifyIdle
    /\ SetIdle
    /\ SettingsIdle
    /\ cmdBuiltIn \in {"NewDrush", "Run"}
    /\ dCmd = 0
    /\ cmds = [k \in CmdIds |-> FreshCmd]
    /\ callPc = [c \in Calls |-> "idle"]
    /\ call = [c \in Calls |-> NoCall]
    /\ SiteIdle

callOther == <<revision, messageline, classified, runVars, setVars, settingsVars,
               cmdBuiltIn, siteVars>>

CallGoto(c, label) == callPc' = [callPc EXCEPT ![c] = label]

\* return "", nil, err
CallFails(c, text) ==
    /\ call' = [call EXCEPT ![c].err = text]
    /\ CallGoto(c, "returned")

\* a caller enters Run; the first revision has no buildCommand
RunEnter(c) ==
    /\ callPc[c] = "idle"
    /\ CallGoto(c, IF cmdBuiltIn = "Run" THEN "buildCommand" ELSE "StderrPipe")
    /\ UNCHANGED <<dCmd, cmds, call, callOther>>

\* d.cmd = exec.Command("drush", arguments...)
buildCommand(c) ==
    /\ callPc[c] = "buildCommand"
    /\ dCmd' = c
    /\ cmds' = [cmds EXCEPT ![c] = FreshCmd]
    /\ CallGoto(c, "StderrPipe")
    /\ UNCHANGED <<call, callOther>>

\* stderr, err := d.cmd.StderrPipe(), on the exec.Cmd d.cmd points to now
CmdStderrPipe(c) ==
    /\ callPc[c] = "StderrPipe"
    /\ IF cmds[dCmd].stderrSet
       THEN CallFails(c, "exec: Stderr already set") /\ UNCHANGED cmds
       ELSE IF cmds[dCmd].started
       THEN CallFails(c, "exec: StderrPipe after process started") /\ UNCHANGED cmds
       ELSE /\ cmds' = [cmds EXCEPT ![dCmd].stderrSet = TRUE]
            /\ call' = [call EXCEPT ![c].stderr = {dCmd}]
            /\ CallGoto(c, "StdoutPipe")
    /\ UNCHANGED <<dCmd, callOther>>

\* stdout, err := d.cmd.StdoutPipe()
CmdStdoutPipe(c) ==
    /\ callPc[c] = "StdoutPipe"
    /\ IF cmds[dCmd].stdoutSet
       THEN CallFails(c, "exec: Stdout already set") /\ UNCHANGED cmds
       ELSE IF cmds[dCmd].started
       THEN CallFails(c, "exec: StdoutPipe after process started") /\ UNCHANGED cmds
       ELSE /\ cmds' = [cmds EXCEPT ![dCmd].stdoutSet = TRUE]
            /\ call' = [call EXCEPT ![c].stdout = {dCmd}]
            /\ CallGoto(c, "Start")
    /\ UNCHANGED <<dCmd, callOther>>

\* err = d.cmd.Start()
CmdStart(c) ==
    /\ callPc[c] = "Start"
    /\ IF cmds[dCmd].started
       THEN CallFails(c, "exec: already started") /\ UNCHANGED cmds
       ELSE /\ cmds' = [cmds EXCEPT ![dCmd].started = TRUE]
            /\ call' = [call EXCEPT ![c].started = {dCmd}]
            /\ CallGoto(c, "Wait")
    /\ UNCHANGED <<dCmd, callOther>>

\* err = d.cmd.Wait(); an error becomes a message of the returned set
CmdWait(c) ==
    /\ callPc[c] = "Wait"
    /\ IF ~cmds[dCmd].started
       THEN CallFails(c, "exec: not started") /\ UNCHANGED cmds
       ELSE IF cmds[dCmd].waited
       THEN CallFails(c, "exec: Wait was already called") /\ UNCHANGED cmds
       ELSE /\ cmds' = [cmds EXCEPT ![dCmd].waited = TRUE]
            /\ call' = [call EXCEPT ![c].waited = {dCmd}]
            /\ CallGoto(c, "returned")
    /\ UNCHANGED <<dCmd, callOther>>

RunCall(c) ==
    \/ RunEnter(c)
    \/ buildCommand(c)
    \/ CmdStderrPipe(c)
    \/ CmdStdoutPipe(c)
    \/ CmdStart(c)
    \/ CmdWait(c)

CallsNext == \E c \in Calls : RunCall(c)

SpecCalls == CallsInit /\ [][CallsNext]_vars

(***************************************************************************)
(* the Site facade: GetStatus, GetSettings, GetDefaultDatabase             *)
(***************************************************************************)
SiteMethods == {"GetStatus", "GetSettings", "GetDefaultDatabase"}

JsonText == <<"{", "}">>

\* what a process may have written on stdout: a JSON document or other text
Outputs == {JsonText} \cup StdoutChunks

JsonErrorText == <<"j", "s", "o", "n">>

\* err := json.Unmarshal(data, v)
Unmarshal(data) ==
    IF Len(data) >= 2 /\ Head(data) = "{" /\ data[Len(data)] = "}"
    THEN NilError
    ELSE PlainError(JsonErrorText)

\* the messages Run may have accumulated in errset
SiteErrsetMessages(rev) ==
    { m \in { NewDrushMessage(rev, l) : l \in StderrLines \cup {ExitStatusText} } :
        ~IsOkType(rev, m.Type) }

SiteErrsets(rev) ==
    {NilSlice} \cup
        { [isNil |-> FALSE, elems |-> elems] :
            elems \in SeqsUpTo(SiteErrsetMessages(rev), MaxSiteErrs) \ {<<>>} }

\* the results of Drush.Run: a transport error, or output with the error value
\* Run assembles from its errset
DrushResults(rev) ==
    { ReturnTransportError(e) : e \in {PipeErrorText, StartErrorText} } \cup
        { Returned(out, NilSlice, ErrsOf(rev, des)) :
            out \in Outputs, des \in SiteErrsets(rev) }

\* exec.Command("php", "-r", phpCode).Output()
PhpResults ==
    {[started |-> TRUE, err |-> PlainError(ExitStatusText), out |-> <<>>]} \cup
        { [started |-> TRUE, err |-> NilError, out |-> out] : out \in Outputs }

WrapMessage(method) ==
    IF method = "GetSettings" THEN "Error fetching drupal settings"
    ELSE "Error fetching drupal database"

\* return nil, err
SiteFails(e) == [returned |-> TRUE, value |-> "nil", err |-> e, wrappedWith |-> ""]

WrapsNothing(e, context) == SiteFails(e)

\* return nil, errors.Wraps(err, context)
Wraps(e, context) == [returned |-> TRUE, value |-> "nil", err |-> e, wrappedWith |-> context]

\* return value, nil
SiteReturns(value) ==
    [returned |-> TRUE, value |-> value, err |-> NilError, wrappedWith |-> ""]

StatusFailsOnErrors(errs) ==
    errs.kind = "plain" \/ (errs.kind = "set" /\ HasErrors(errs.set))

\* if errs != nil
StatusFails(errs) == errs.kind # "nil"

\* GetStatus, given what s.Drush returned
GetStatus(run) ==
    IF StatusFails(run.errs) THEN SiteFails(run.errs)
    ELSE IF Unmarshal(run.output) # NilError THEN SiteFails(Unmarshal(run.output))
    ELSE SiteReturns("status")

SiteInit ==
    /\ revision \in Revisions
    /\ RunInit
    /\ ClassifyIdle
    /\ SetIdle
    /\ SettingsIdle
    /\ CallsIdle
    /\ siteMethod \in SiteMethods
    /\ sitePc = "Drush"
    /\ drushResult = NoResult
    /\ phpResult = NoPhp
    /\ siteResult = NoSiteResult

siteOther == <<revision, messageline, classified, runVars, setVars, settingsVars,
               callVars, siteMethod>>

\* output, _, errs := s.Drush("status", "--format=json")
SiteDrush ==
    /\ sitePc = "Drush"
    /\ drushResult' \in DrushResults(revision)
    /\ sitePc' = "GetStatus"
    /\ UNCHANGED <<phpResult, siteResult, siteOther>>

\* the rest of GetStatus, and in the two other methods
\* status, err := s.GetStatus(); if err != nil { return nil, err }
SiteGetStatus ==
    /\ sitePc = "GetStatus"
    /\ IF siteMethod = "GetStatus" \/ GetStatus(drushResult).err # NilError
       THEN siteResult' = GetStatus(drushResult) /\ sitePc' = "returned"
       ELSE sitePc' = "php" /\ UNCHANGED siteResult
    /\ UNCHANGED <<drushResult, phpResult, siteOther>>

\* out, err := exec.Command("php", "-r", phpCode).Output()
SitePhp ==
    /\ sitePc = "php"
    /\ \E php \in PhpResults :
          /\ phpResult' = php
          /\ IF php.err # NilError
             THEN siteResult' = Wraps(php.err, WrapMessage(siteMethod))
                  /\ sitePc' = "returned"
             ELSE sitePc' = "Unmarshal" /\ UNCHANGED siteResult
    /\ UNCHANGED <<drushResult, siteOther>>

\* err = json.Unmarshal(out, &settings)
SiteUnmarshal ==
    /\ sitePc = "Unmarshal"
    /\ siteResult' =
          IF Unmarshal(phpResult.out) # NilError
          THEN Wraps(Unmarshal(phpResult.out), WrapMessage(siteMethod))
          ELSE SiteReturns(IF siteMethod = "GetSettings" THEN "settings" ELSE "database")
    /\ sitePc' = "returned"
    /\ UNCHANGED <<drushResult, phpResult, siteOther>>

SiteNext == SiteDrush \/ SiteGetStatus \/ SitePhp \/ SiteUnmarshal

SpecSite == SiteInit /\ [][SiteNext]_vars

(***************************************************************************)
(* what a run should report, computed from what the process wrote          *)
(***************************************************************************)
RECURSIVE ClassifyAll(_, _)
ClassifyAll(rev, lines) ==
    IF lines = <<>> THEN <<>>
    ELSE <<NewDrushMessage(rev, Head(lines))>> \o ClassifyAll(rev, Tail(lines))

RECURSIVE Keep(_, _)
\* the elements of seq that are in the set S, in order
Keep(seq, S) ==
    IF seq = <<>> THEN <<>>
    ELSE (IF Head(seq) \in S THEN <<Head(seq)>> ELSE <<>>) \o Keep(Tail(seq), S)

Count(seq, x) == Cardinality({ i \in DOMAIN seq : seq[i] = x })

LineMessages == { NewDrushMessage(revision, l) : l \in StderrLines }

OkMessages == { m \in LineMessages : IsOkType(revision, m.Type) }

\* the messages of the non-OK lines the process wrote, in emitted order
EmittedNonOk == Keep(ClassifyAll(revision, emitted), LineMessages \ OkMessages)

\* the message made from the process-level error text
ExitMessage == NewDrushMessage(revision, ExitStatusText)

\* Run returned after the process had been started
ReturnedStarted == result.returned /\ cmdState # "built"

(***************************************************************************)
(* Claims                                                                  *)
(***************************************************************************)
ReturnedSet == result.errs.set.elems

\* C1: when the started process exits non-zero, the message made from the
\* process-level error text is the last element of the returned error set,
\* after every message parsed from a stderr line.
C1_ExitMessageLast ==
    (ReturnedStarted /\ exitStatus # 0 /\ result.errs.kind = "set")
        => /\ ReturnedSet # <<>>
           /\ ReturnedSet[Len(ReturnedSet)] = ExitMessage

\* C2: no state is reachable in which two tasks are both inside a
\* read-modify-write of the same accumulator (here errset: the main task's
\* append and the stderr drain task's append).
C2_NoSharedAccumulator ==
    ~(pc.main = "AppendStore" /\ pc.stderr = "Store")

\* C3: when the process started, every line it wrote to stderr appears
\* exactly once in the result, in the ok-message list or in the error set.
C3_EveryLineOnce ==
    ReturnedStarted
        => \A l \in StderrLines :
              Count(result.messages.elems \o ReturnedSet, NewDrushMessage(revision, l))
                  = Count(emitted, l)

\* C4: the result is assembled only after both drain tasks have finished,
\* and Run never returns while a drain task is still running.
C4_JoinBeforeAssemble ==
    /\ pc.main = "Assemble" => (pc.stderr = "done" /\ pc.stdout = "done" /\ wg = 0)
    /\ result.returned => (pc.stderr \in {"idle", "done"} /\ pc.stdout \in {"idle", "done"})
    /\ ReturnedStarted => (pc.stderr = "done" /\ pc.stdout = "done")

\* C4 witness: the main task is about to assemble the result of a run whose
\* two drain tasks both had something to drain and have finished.
C4_Witness ==
    /\ pc.main = "Assemble"
    /\ pc.stderr = "done" /\ pc.stdout = "done"
    /\ Len(errset.elems) + Len(messages.elems) >= 2
    /\ outbuf # <<>>

\* C5: for a started process Run returns a nil error value if and only if
\* the process exited zero and no stderr line classified as non-OK, and
\* otherwise a non-nil, non-empty message set; a command that exits zero
\* and emits only warning lines returns exactly those warnings.
C5_NilIffClean ==
    ReturnedStarted
        => /\ (result.errs.kind = "nil") <=> (exitStatus = 0 /\ EmittedNonOk = <<>>)
           /\ result.errs.kind # "nil" => (result.errs.kind = "set" /\ ReturnedSet # <<>>)
           /\ (/\ exitStatus = 0
               /\ EmittedNonOk # <<>>
               /\ \A i \in DOMAIN EmittedNonOk : EmittedNonOk[i].Type = DrushMessageWarning)
                  => (result.errs.kind = "set" /\ ReturnedSet = EmittedNonOk)

\* C6: a non-zero exit of the started process is a command-level failure:
\* the returned error is a message set whose length is the number of non-OK
\* stderr lines plus one; with no stderr output it holds exactly the
\* process-level failure text.
C6_NonZeroExitIsSet ==
    (ReturnedStarted /\ exitStatus # 0)
        => /\ result.errs.kind = "set"
           /\ Len(ReturnedSet) = Len(EmittedNonOk) + 1
           /\ emitted = <<>> => ReturnedSet = <<ExitMessage>>

TransportErrorTexts == {PipeErrorText, StartErrorText}

\* C7: when StderrPipe, StdoutPipe or Start fails, Run returns that error
\* as a plain error with empty output and a nil ok-message list; no drain
\* task was started, no line was classified and no process is running.
C7_TransportFailure ==
    /\ err.text \in TransportErrorTexts
          => /\ result = Returned(<<>>, NilSlice, PlainError(err.text))
             /\ pc = [main |-> "returned", stderr |-> "idle", stdout |-> "idle"]
             /\ cmdState = "built"
             /\ wg = 0
             /\ message = NoMessage
             /\ errset = NilSlice
    /\ (result.returned /\ cmdState = "built") => err.text \in TransportErrorTexts
    /\ (result.returned /\ result.errs.kind = "plain") => err.text \in TransportErrorTexts

\* C7 witness: Run has returned because Start failed, after both pipes were
\* obtained.
C7_Witness ==
    /\ result.returned
    /\ err.text = StartErrorText
    /\ pipeOpen.stderr /\ pipeOpen.stdout

\* C8: the returned error set lists the non-OK stderr lines in the order
\* the process emitted them, each classified on its own.
C8_EmittedOrder ==
    (ReturnedStarted /\ result.errs.kind = "set")
        => Keep(ReturnedSet, LineMessages) = EmittedNonOk

RecognizedMarkers ==
    {DrushMessageError, DrushMessageWarning, DrushMessageNotice, DrushMessageOK}

\* the severity a marker maps to: [notice] maps to the Warning value
SeverityOf(marker) ==
    IF marker = DrushMessageNotice THEN DrushMessageWarning ELSE marker

\* C9: for every line ending in a recognized marker, NewDrushMessage returns
\* the severity mapped to that marker, and the stored text is the line
\* without the matched marker and without leading/trailing whitespace.
C9_MarkerStripped ==
    classified # NoMessage
        => \A marker \in RecognizedMarkers :
              HasSuffix(messageline, marker)
                  => /\ classified.Type = SeverityOf(marker)
                     /\ classified.Message = TrimSpace(TrimSuffix(messageline, marker))

\* the markers the running revision tests for
TestedMarkers ==
    RecognizedMarkers \cup (IF HasSuccessType(revision) THEN {DrushMessageSuccess} ELSE {})

\* C10: for every line that ends in no recognized marker, the empty string
\* included, NewDrushMessage returns severity Unknown and the
\* whitespace-trimmed input as text.
C10_UnknownKeepsLine ==
    (classified # NoMessage /\ \A marker \in TestedMarkers : ~HasSuffix(messageline, marker))
        => /\ classified.Type = DrushMessageUnknown
           /\ classified.Message = TrimSpace(messageline)

\* some message of the set has exactly this type
Contains(set, type) == \E i \in DOMAIN set.elems : set.elems[i].Type = type

\* C11: each of HasErrors, HasWarnings, HasNotices and HasUnknowns returns
\* true if and only if at least one contained message has exactly that
\* severity; all four return false on the empty set and on the nil set.
C11_HasIffContains ==
    has.called
        => /\ has.errors <=> Contains(drushMessages, DrushMessageError)
           /\ has.warnings <=> Contains(drushMessages, DrushMessageWarning)
           /\ has.notices <=> Contains(drushMessages, DrushMessageNotice)
           /\ has.unknowns <=> Contains(drushMessages, DrushMessageUnknown)
           /\ drushMessages.elems = <<>>
                 => ~(has.errors \/ has.warnings \/ has.notices \/ has.unknowns)

\* C11 witness: the predicates were called on a set holding a notice and a
\* warning, and told them apart.
C11_Witness ==
    /\ has.called
    /\ Contains(drushMessages, DrushMessageNotice)
    /\ ~Contains(drushMessages, DrushMessageWarning)
    /\ has.notices /\ ~has.warnings

NoticeLine == <<"n", " ">> \o DrushMessageNotice

EmittedHas(marker) == \E i \in DOMAIN emitted : HasSuffix(emitted[i], marker)

\* C12: a stderr line ending in [notice] is reported by Run as a notice and
\* not as a warning: the returned set has HasNotices() true, and when no
\* line ends in [warning] or [error], HasWarnings() and HasErrors() are false.
C12_NoticeIsNotice ==
    (/\ ReturnedStarted
     /\ result.errs.kind = "set"
     /\ Count(ReturnedSet, NewDrushMessage(revision, NoticeLine)) > 0)
        => /\ HasNotices(result.errs.set)
           /\ (~EmittedHas(DrushMessageWarning) /\ ~EmittedHas(DrushMessageError))
                 => (~HasWarnings(result.errs.set) /\ ~HasErrors(result.errs.set))

\* the messages of the OK/Success lines the process wrote, in emitted order
EmittedOk == Keep(ClassifyAll(revision, emitted), OkMessages)

\* C13: after any Run the returned ok-message list holds exactly the stderr
\* lines classified OK (or Success), in emitted order; the returned error
\* set holds no OK/Success message; with no such line the list is nil.
C13_OkMessagesExact ==
    result.returned
        => /\ result.messages.elems = EmittedOk
           /\ Keep(ReturnedSet, OkMessages) = <<>>
           /\ EmittedOk = <<>> => result.messages.isNil

\* C19: the exit-status message goes through NewDrushMessage and is Unknown:
\* for a process that exits non-zero without any stderr line ending in
\* [error], the returned set has HasErrors() false and HasUnknowns() true.
C19_ExitMessageUnknown ==
    (ReturnedStarted /\ exitStatus # 0 /\ ~EmittedHas(DrushMessageError))
        => /\ ~HasErrors(result.errs.set)
           /\ HasUnknowns(result.errs.set)

\* the line is a recognized marker followed by trailing whitespace only
MarkerThenSpace(line, marker) ==
    /\ TrimRight(line) # line
    /\ HasSuffix(TrimRight(line), marker)

\* C18 (as claimed): a line whose recognized marker is followed only by
\* trailing whitespace is classified with that marker's severity and its
\* stored text excludes the marker.
C18_TrimmedLineTested ==
    classified # NoMessage
        => \A marker \in RecognizedMarkers :
              MarkerThenSpace(messageline, marker)
                  => /\ classified.Type = SeverityOf(marker)
                     /\ classified.Message
                            = TrimSpace(TrimSuffix(TrimRight(messageline), marker))

\* C18 (amended): NewDrushMessage tests the markers against the raw line: a
\* line whose recognized marker is followed by trailing whitespace matches
\* no marker, is classified Unknown, and its stored text is the trimmed
\* line, marker included.
C18_RawLineTested ==
    classified # NoMessage
        => \A marker \in RecognizedMarkers :
              MarkerThenSpace(messageline, marker)
                  => /\ classified.Type = DrushMessageUnknown
                     /\ classified.Message = TrimSpace(messageline)
                     /\ HasSuffix(classified.Message, marker)

\* C18 witness: "x [error] " has been classified.
C18_Witness ==
    /\ messageline = <<"x", " ">> \o DrushMessageError \o <<" ">>
    /\ classified = DrushMessage(<<"x", " ">> \o DrushMessageError, DrushMessageUnknown)

\* C17: Run returns only after the external process has exited, and
\* whenever the started process exits, Run eventually returns; a process
\* that never exits keeps Run from returning.
C17_ReturnsIffExits ==
    /\ [](ReturnedStarted => cmdState = "exited")
    /\ (cmdState = "exited") ~> result.returned

\* C17 witness: Run has returned after a process that wrote to both streams
\* exited.
C17_Witness ==
    /\ ReturnedStarted
    /\ cmdState = "exited"
    /\ emitted # <<>>
    /\ written # <<>>

\* the dynamic type an accessor returns as-is
WantedType(accessor) ==
    CASE accessor = "GetString" -> "string"
      [] accessor = "GetInt" -> "int"
      [] accessor = "GetBool" -> "bool"
      [] accessor = "GetFloat" -> "float64"
      [] accessor = "GetAssocArray" -> "Settings"
      [] accessor = "GetArray" -> "list"

ZeroValue(accessor) ==
    CASE accessor = "GetString" -> Value("string", "", <<>>)
      [] accessor = "GetInt" -> Value("int", "0", <<>>)
      [] accessor = "GetBool" -> Value("bool", "false", <<>>)
      [] accessor = "GetFloat" -> Value("float64", "0", <<>>)
      [] accessor = "GetAssocArray" -> Value("Settings", "nil", <<>>)
      [] accessor = "GetArray" -> Value("[]string", "nil", <<>>)

\* the key is absent, or its value is not of the type the accessor wants
AbsentOrWrongType ==
    \/ got.key \notin DOMAIN settings
    \/ settings[got.key].type # WantedType(got.accessor)

\* C15: no Settings accessor fails: for every key and every dynamic value
\* type it returns its zero value when the key is absent or the value has
\* the wrong dynamic type.
C15_AccessorsNeverFail ==
    got.called
        => /\ ~got.panic
           /\ AbsentOrWrongType => got.value = ZeroValue(got.accessor)

\* the exec.Cmd values a call acted on
CmdsOf(c) == call[c].stderr \cup call[c].stdout \cup call[c].started \cup call[c].waited

\* the call ran a process of its own: its pipes, its Start and its Wait were
\* on one exec.Cmd, no other call touched that exec.Cmd, and nothing failed
OwnProcess(c) ==
    /\ call[c].err = ""
    /\ \E k \in CmdIds :
          /\ call[c].stderr = {k}
          /\ call[c].stdout = {k}
          /\ call[c].started = {k}
          /\ call[c].waited = {k}
          /\ \A other \in Calls \ {c} : k \notin CmdsOf(other)

\* C14: Run calls are independent: any two calls, sequential or
\* concurrent, on the same Drush value each spawn their own process, and
\* the result of one never depends on another.
C14_CallsIndependent == \A c \in Calls : callPc[c] = "returned" => OwnProcess(c)

\* C16 as stated: in the Site facade every transport failure and every
\* decode failure is returned as the very error value produced, not wrapped.
C16_ErrorsUnchanged ==
    (siteResult.returned /\ siteResult.err # NilError) => siteResult.wrappedWith = ""

\* C16 amended: the Command Runner's error and the status decoder's error are
\* returned as the very same value; the interpreter call's error and the
\* decode error of its output are returned wrapped in "Error fetching drupal
\* settings" or "Error fetching drupal database".
C16_InterpreterErrorsWrapped ==
    (siteResult.returned /\ siteResult.err # NilError)
        => IF drushResult.errs # NilError
           THEN siteResult.err = drushResult.errs /\ siteResult.wrappedWith = ""
           ELSE IF Unmarshal(drushResult.output) # NilError
           THEN /\ siteResult.err = Unmarshal(drushResult.output)
                /\ siteResult.wrappedWith = ""
           ELSE /\ siteMethod # "GetStatus"
                /\ phpResult.started
                /\ siteResult.wrappedWith = WrapMessage(siteMethod)
                /\ siteResult.err =
                      IF phpResult.err # NilError THEN phpResult.err
                      ELSE Unmarshal(phpResult.out)

C16_Witness ==
    /\ siteResult.returned
    /\ siteMethod = "GetDefaultDatabase"
    /\ phpResult.err = NilError
    /\ siteResult.err = PlainError(JsonErrorText)
    /\ siteResult.wrappedWith = "Error fetching drupal database"

\* C20: whenever the status command's Run returns a non-nil error value,
\* GetStatus returns a nil status and that error, even after exit status zero
\* with valid status JSON and only warnings; GetSettings and
\* GetDefaultDatabase return the same error and never start the interpreter.
C20_StatusErrorStopsFacade ==
    drushResult.errs # NilError
        => /\ ~phpResult.started
           /\ siteResult.returned
                => /\ siteResult.value = "nil"
                   /\ siteResult.err = drushResult.errs
                   /\ siteResult.wrappedWith = ""

C20_Witness ==
    /\ siteResult.returned
    /\ siteMethod = "GetSettings"
    /\ Unmarshal(drushResult.output) = NilError
    /\ drushResult.errs.kind = "set"
    /\ ~HasErrors(drushResult.errs.set)
    /\ ~HasUnknowns(drushResult.errs.set)
    /\ siteResult.err = drushResult.errs

====
